---- MODULE Spec2Model ----
(***************************************************************************)
(* A model of the forex data pipeline: the per-pair price table and        *)
(* DataManager.store_price_data / find_data_gaps (src/data/database.py),   *)
(* MT5Fetcher.fetch_ohlcv (src/data/fetcher.py) and the DataUpdater        *)
(* thread-pool fan-out and retry loop (src/data/updater.py).               *)
(*                                                                         *)
(* Timestamps are whole minutes counted from a Monday 00:00.  Prices are   *)
(* counted in units of 1e-7, so that round(x, 6) is a real conversion.     *)
(***************************************************************************)
EXTENDS Integers, Sequences, FiniteSets, TLC

VARIABLES
    table,          \* rows of the price table price_data.<pair>_<timeframe>
    storeCall,      \* what the last store_price_data call did and returned
    calendar,       \* config["calendar"]: weekend_trading, forex_market_open
    gapCall,        \* arguments and result of the last find_data_gaps call
    params,         \* arguments/configuration of the DataUpdater run
    fetcher,        \* MT5Fetcher: is_initialized, and whether the connection
                    \* was ever closed while a pair task was unfinished
    upc,            \* position of the thread running update_all_pairs
    pair_map,       \* the pairs ensure_currency_pairs returned to it
    tasks,          \* per pair: the future of its _update_single_pair task
    results,        \* update_all_pairs' results dictionary
    sched,          \* run_scheduled_update: position, attempt, counters
    fetchCall,      \* arguments and outcome of the last fetch_ohlcv call
    resIn,          \* the frame handed to DataResampler.resample_data
    resCall,        \* timeframes and result of the last resample_data call
    getCall,        \* arguments and result of the last get_price_data call
    ttable,         \* rows of the pair's 5-minute table price_data.<pair>_5m
    rsCall,         \* last get_resampled_price_data call and what it returned
    currency_pairs, \* rows of the currency_pairs table (CurrencyPair)
    config_pairs,   \* config["data"]["currency_pairs"]
    ecpCall,        \* what the last ensure_currency_pairs call did and returned
    run,            \* one _update_single_pair run on the 1-minute table
    storeIn,        \* a store_price_data call: its frame, the table before it
    calls,          \* two store_price_data calls on one table, step by step
    rlCall          \* the last resample_latest_data call and what it returned

resVars  == <<resIn, resCall, getCall, ttable, rsCall>>
pairVars == <<currency_pairs, config_pairs, ecpCall>>
lateVars == <<calls, rlCall>>
newVars  == <<resVars, pairVars, run, storeIn, lateVars>>

vars == <<table, storeCall, calendar, gapCall, params, fetcher, upc, pair_map,
          tasks, results, sched, fetchCall, newVars>>

storeVars == <<table, storeCall>>
gapVars   == <<calendar, gapCall>>
updVars   == <<params, fetcher, upc, pair_map, tasks, results, sched>>

----------------------------------------------------------------------------
(* Bounds of the model *)

\* timestamps 0..MaxTime are used by the store_price_data specification
MaxTime == 2
\* longest incoming frame (rows) of a store_price_data call
MaxFrameLen == 2

----------------------------------------------------------------------------
(* Generic helpers *)

Range(s) == {s[i] : i \in 1..Len(s)}

MinOf(S) == CHOOSE x \in S : \A y \in S : x <= y

MaxOf(S) == CHOOSE x \in S : \A y \in S : x >= y

RECURSIVE SortedSeq(_)
\* the ascending sequence of a finite set of integers (ORDER BY timestamp)
SortedSeq(S) == IF S = {} THEN <<>> ELSE <<MinOf(S)>> \o SortedSeq(S \ {MinOf(S)})

RECURSIVE SelectRows(_, _)
\* the rows of a frame, in order, whose time is not in `drop`
SelectRows(rows, drop) ==
    IF rows = <<>> THEN <<>>
    ELSE IF Head(rows).time \in drop THEN SelectRows(Tail(rows), drop)
         ELSE <<Head(rows)>> \o SelectRows(Tail(rows), drop)

----------------------------------------------------------------------------
(* The price table and DataManager.store_price_data *)

\* round(float(x), 6) on a price counted in units of 1e-7
Round6(x) == ((x + 5) \div 10) * 10

\* the OHLCV shapes incoming candles are drawn from (prices in 1e-7 units)
Candles ==
    { [open |-> 104, high |-> 118, low |-> 96, close |-> 112, volume |-> 3],
      [open |-> 200, high |-> 207, low |-> 191, close |-> 203, volume |-> 5] }

FrameRow(t, c) ==
    [time |-> t, open |-> c.open, high |-> c.high, low |-> c.low,
     close |-> c.close, volume |-> c.volume]

\* the record store_price_data builds for one row of the frame
ToRecord(row) ==
    [time |-> row.time, open |-> Round6(row.open), high |-> Round6(row.high),
     low |-> Round6(row.low), close |-> Round6(row.close), volume |-> row.volume]

TableTimes(tbl) == {r.time : r \in tbl}

\* a range query with strict bounds: min_time < timestamp < max_time
ExistingTimesStrict(tbl, rows) ==
    LET ts == {rows[i].time : i \in 1..Len(rows)}
    IN  {t \in TableTimes(tbl) : MinOf(ts) < t /\ t < MaxOf(ts)}

\* SELECT timestamp WHERE min_time <= timestamp <= max_time
ExistingTimes(tbl, rows) ==
    LET ts == {rows[i].time : i \in 1..Len(rows)}
    IN  {t \in TableTimes(tbl) : MinOf(ts) <= t /\ t <= MaxOf(ts)}

\* the filter left out: every row of the frame is kept
FilterExistingKeepAll(rows, existing) == rows

\* data = data[~data['time'].isin(existing_times)]
FilterExisting(rows, existing) == SelectRows(rows, existing)

\* an insert outside a transaction: the first row stays when a later one fails
DbInsertNoTransaction(tbl, records, dbFail) ==
    LET n == Len(records)
        partial == IF n > 1 /\ records[1].time \notin TableTimes(tbl)
                   THEN tbl \cup {records[1]} ELSE tbl
    IN
    IF dbFail
    THEN [ok |-> FALSE, err |-> "db", table |-> partial]
    ELSE IF \E i \in 1..n : records[i].time \in TableTimes(tbl)
    THEN [ok |-> FALSE, err |-> "pk_existing", table |-> tbl]
    ELSE IF \E i, j \in 1..n : i # j /\ records[i].time = records[j].time
    THEN [ok |-> FALSE, err |-> "pk_frame", table |-> partial]
    ELSE [ok |-> TRUE, err |-> "none", table |-> tbl \cup Range(records)]

\* conn.execute(table.insert(), records) inside engine.begin(): the primary
\* key on timestamp rejects the whole transaction
DbInsert(tbl, records, dbFail) ==
    LET n == Len(records) IN
    IF dbFail
    THEN [ok |-> FALSE, err |-> "db", table |-> tbl]
    ELSE IF \E i \in 1..n : records[i].time \in TableTimes(tbl)
    THEN [ok |-> FALSE, err |-> "pk_existing", table |-> tbl]
    ELSE IF \E i, j \in 1..n : i # j /\ records[i].time = records[j].time
    THEN [ok |-> FALSE, err |-> "pk_frame", table |-> tbl]
    ELSE [ok |-> TRUE, err |-> "none", table |-> tbl \cup Range(records)]

NoStoreCall ==
    [called |-> FALSE, ret |-> FALSE, err |-> "none", skipped |-> 0, inserted |-> 0]

\* DataManager.store_price_data: the returned value, the table afterwards and
\* what happened on the way
store_price_data(tbl, frame, dbFail) ==
    IF frame.kind = "none" \/ Len(frame.rows) = 0
    THEN [ret |-> FALSE, err |-> "nodata", table |-> tbl, skipped |-> 0, inserted |-> 0]
    ELSE IF frame.kind = "notime"
    THEN [ret |-> FALSE, err |-> "notime", table |-> tbl, skipped |-> 0, inserted |-> 0]
    ELSE
      LET existing_times == ExistingTimes(tbl, frame.rows)
          data == IF existing_times # {}
                  THEN FilterExisting(frame.rows, existing_times)
                  ELSE frame.rows
          skipped == Len(frame.rows) - Len(data)
      IN  IF Len(data) = 0
          THEN [ret |-> TRUE, err |-> "none", table |-> tbl,
                skipped |-> skipped, inserted |-> 0]
          ELSE
            LET records == [i \in 1..Len(data) |-> ToRecord(data[i])]
                ins == DbInsert(tbl, records, dbFail)
            IN  [ret |-> ins.ok, err |-> ins.err, table |-> ins.table,
                 skipped |-> skipped,
                 inserted |-> IF ins.ok THEN Len(records) ELSE 0]

StoreTimes == 0..MaxTime

FrameRows == {FrameRow(t, c) : t \in StoreTimes, c \in Candles}

RowSeqs == UNION {[1..n -> FrameRows] : n \in 0..MaxFrameLen}

\* the frames a caller can pass: None, a frame without a 'time' column, or rows
Frames ==
    {[kind |-> "none", rows |-> <<>>], [kind |-> "notime", rows |-> <<FrameRow(0, CHOOSE c \in Candles : TRUE)>>]}
    \cup {[kind |-> "rows", rows |-> s] : s \in RowSeqs}

\* one sequential call store_price_data(pair, frame, timeframe)
StorePriceData(frame, dbFail) ==
    LET r == store_price_data(table, frame, dbFail) IN
    /\ table' = r.table
    /\ storeCall' = [called |-> TRUE, ret |-> r.ret, err |-> r.err,
                     skipped |-> r.skipped, inserted |-> r.inserted]

StoreStep ==
    /\ \E frame \in Frames, dbFail \in BOOLEAN : StorePriceData(frame, dbFail)
    /\ UNCHANGED <<gapVars, updVars, fetchCall, newVars>>

----------------------------------------------------------------------------
(* Calendar arithmetic on timestamps (minutes from a Monday 00:00) *)

At(week, day, hh, mm) == (((week * 7 + day) * 24) + hh) * 60 + mm

\* datetime.weekday(): Monday = 0 ... Sunday = 6
weekday(t) == (t \div (24 * 60)) % 7

\* datetime.hour
hour(t) == (t % (24 * 60)) \div 60

----------------------------------------------------------------------------
(* DataManager.find_data_gaps and the weekend heuristic *)

\* most rows a table holds in the gap-detection specification
MaxRows == 3

\* default Friday close hour and Monday open hour
DefaultCloseHour == 22
DefaultOpenHour == 0

RECURSIVE FirstForDay(_, _)
\* the first entry of config["calendar"]["forex_market_open"] for `day`
FirstForDay(market_hours, day) ==
    IF market_hours = <<>> THEN [found |-> FALSE, hh |-> 0]
    ELSE IF Head(market_hours).day = day
         THEN [found |-> TRUE, hh |-> Head(market_hours).time.hh]
         ELSE FirstForDay(Tail(market_hours), day)

\* int(time_str.split(":")[0]) of the day's entry, 22 when there is none
get_market_close_time(cal, day) ==
    LET e == FirstForDay(cal.forex_market_open, day)
    IN  IF e.found THEN e.hh ELSE DefaultCloseHour

\* int(time_str.split(":")[0]) of the day's entry, 0 when there is none
get_market_open_time(cal, day) ==
    LET e == FirstForDay(cal.forex_market_open, day)
    IN  IF e.found THEN e.hh ELSE DefaultOpenHour

\* DataManager._is_weekend_gap
is_weekend_gap(cal, start, end) ==
    /\ ~cal.weekend_trading
    /\ weekday(end) = 0 /\ weekday(start) = 4
    /\ hour(start) >= get_market_close_time(cal, 4)
    /\ hour(end) <= get_market_open_time(cal, 0)

SupportedTimeframes == {"1m", "5m", "15m", "30m", "1h", "4h", "1d"}

\* expected_delta of a supported timeframe, in minutes
expected_delta(timeframe) ==
    CASE timeframe = "1m"  -> 1
      [] timeframe = "5m"  -> 5
      [] timeframe = "15m" -> 15
      [] timeframe = "30m" -> 30
      [] timeframe = "1h"  -> 60
      [] timeframe = "4h"  -> 4 * 60
      [] timeframe = "1d"  -> 24 * 60

\* int(actual_delta.total_seconds() / expected_delta.total_seconds())
expected_intervals(previous, current, timeframe) ==
    (current - previous) \div expected_delta(timeframe)

RECURSIVE ScanGaps(_, _, _, _)
\* the loop "for i in range(1, len(timestamps))" from index i on
ScanGaps(timestamps, i, timeframe, cal) ==
    IF i > Len(timestamps) THEN <<>>
    ELSE LET previous == timestamps[i - 1]
             current  == timestamps[i]
             rest     == ScanGaps(timestamps, i + 1, timeframe, cal)
         IN  IF /\ expected_intervals(previous, current, timeframe) > 1
                /\ ~is_weekend_gap(cal, previous, current)
             THEN <<(<<previous, current>>)>> \o rest
             ELSE rest

\* DataManager.find_data_gaps: the returned list of (gap_start, gap_end)
find_data_gaps(tbl, timeframe, cal, dbError) ==
    IF dbError THEN <<>>
    ELSE LET timestamps == SortedSeq(TableTimes(tbl)) IN
         IF timestamps = <<>> THEN <<>>
         ELSE IF timeframe \notin SupportedTimeframes THEN <<>>
         ELSE ScanGaps(timestamps, 2, timeframe, cal)

\* the timeframes find_data_gaps is called with ("1w" is unsupported)
GapTimeframes == {"1m", "5m", "1h", "1d", "1w"}

\* the timestamps stored in the gap-detection specification
GapTimes ==
    { At(0, 0, 0, 0), At(0, 0, 0, 1), At(0, 0, 0, 2), At(0, 0, 0, 7),
      At(0, 0, 0, 10), At(0, 4, 21, 59), At(0, 4, 22, 30), At(0, 6, 22, 0),
      At(1, 0, 0, 0), At(1, 0, 1, 0), At(2, 0, 0, 0) }

HHMM(h, m) == [hh |-> h, mm |-> m]

\* the forex_market_open lists the configuration is drawn from
MarketHourLists ==
    { <<>>,
      << [day |-> 6, time |-> HHMM(22, 0)] >>,
      << [day |-> 0, time |-> HHMM(1, 0)] >>,
      << [day |-> 4, time |-> HHMM(21, 0)], [day |-> 0, time |-> HHMM(0, 0)] >> }

Calendars ==
    [weekend_trading : BOOLEAN, forex_market_open : MarketHourLists]

NoGapCall == [called |-> FALSE, timeframe |-> "1m", dbError |-> FALSE, gaps |-> <<>>]

\* a candle is stored (one-row frame); an earlier gap list is dropped
GapStore(t) ==
    /\ Cardinality(table) < MaxRows
    /\ StorePriceData([kind |-> "rows",
                       rows |-> <<FrameRow(t, CHOOSE c \in Candles : TRUE)>>], FALSE)
    /\ gapCall' = NoGapCall
    /\ UNCHANGED <<calendar, updVars, fetchCall, newVars>>

\* one call find_data_gaps(pair, timeframe)
FindDataGaps(timeframe, dbError) ==
    /\ gapCall' = [called |-> TRUE, timeframe |-> timeframe, dbError |-> dbError,
                   gaps |-> find_data_gaps(table, timeframe, calendar, dbError)]
    /\ UNCHANGED <<storeVars, calendar, updVars, fetchCall, newVars>>

GapStep ==
    \/ \E t \in GapTimes : GapStore(t)
    \/ \E tf \in GapTimeframes, dbError \in BOOLEAN : FindDataGaps(tf, dbError)

----------------------------------------------------------------------------
(* MT5Fetcher.initialize / shutdown *)

\* MT5Fetcher.initialize: connected means mt5.terminal_info() or
\* mt5.initialize(...) succeeds
fetcher_initialize(f, connected) ==
    IF f.is_initialized THEN [ok |-> TRUE, fetcher |-> f]
    ELSE IF connected
         THEN [ok |-> TRUE, fetcher |-> [f EXCEPT !.is_initialized = TRUE]]
         ELSE [ok |-> FALSE, fetcher |-> f]

\* a shutdown that closes MT5 but forgets to clear the flag
fetcher_shutdown_keeps_flag(f, busy) ==
    IF f.is_initialized
    THEN [f EXCEPT !.closed_while_busy = f.closed_while_busy \/ busy]
    ELSE f

\* MT5Fetcher.shutdown; busy: some submitted pair task has not finished
fetcher_shutdown(f, busy) ==
    IF f.is_initialized
    THEN [is_initialized |-> FALSE,
          closed_while_busy |-> f.closed_while_busy \/ busy]
    ELSE f

NewFetcher == [is_initialized |-> FALSE, closed_while_busy |-> FALSE]

----------------------------------------------------------------------------
(* DataUpdater.update_all_pairs and _update_single_pair *)

\* number of configured currency pairs
NumPairs == 2
\* largest max_workers passed by a direct caller
MaxWorkers == 2
\* largest configured retry_attempts
MaxAttempts == 2
\* max_workers when update_all_pairs is called without it
DefaultMaxWorkers == 4

\* the configured pair names, in configuration order
Pairs == 1..NumPairs

NewTask ==
    [st |-> "unsubmitted", success |-> TRUE, latest |-> "notcalled",
     gaps |-> "notcalled", raised |-> FALSE, ret |-> FALSE, runs |-> 0]

NoTasks == [p \in Pairs |-> NewTask]

NoResults == [p \in {} |-> FALSE]

Unfinished(ts) == {p \in Pairs : ts[p].st \in {"queued", "begin", "after_latest"}}

\* the invocations of _update_single_pair that are executing
Running(ts) == {p \in Pairs : ts[p].st \in {"begin", "after_latest"}}

\* a pool without a limit: a thread for every queued work item
worker_available_unbounded(ts, max_workers) == TRUE

\* ThreadPoolExecutor(max_workers): a work item runs when one of at most
\* max_workers worker threads is free
worker_available(ts, max_workers) == Cardinality(Running(ts)) < max_workers

BoolName(b) == IF b THEN "True" ELSE "False"

\* an accumulation that keeps only the last operation's status
success_and_overwrite(success, op_success) == op_success

\* success = success and <operation>_success
success_and(success, op_success) == IF success THEN op_success ELSE success

\* future.result(): _update_single_pair catches every Exception itself, so
\* the future holds the boolean it returned
future_result(task) == task.ret

\* a loop that stops as soon as one future was collected
as_completed_done_early(ts, res) == DOMAIN res # {}

\* the loop over as_completed(future_to_pair) has yielded every future
as_completed_done(ts, res) == \A p \in Pairs : ts[p].st # "unsubmitted" => p \in DOMAIN res

\* leaving the with block: executor.shutdown(wait=True) returns once every
\* submitted work item has finished
executor_joined(ts) == Unfinished(ts) = {}

\* the prelude of update_all_pairs up to the thread pool, with the finally
\* clause of the early exits: connected is the outcome of initialize(), pairs
\* the outcome of ensure_currency_pairs ("ok", "empty" for {}, "raise")
UAP_Begin(connected, pairs) ==
    /\ upc = "start"
    /\ LET init == fetcher_initialize(fetcher, connected)
       IN  IF ~init.ok \/ pairs # "ok"
           THEN /\ fetcher' = fetcher_shutdown(init.fetcher, FALSE)
                /\ upc' = "returned"
                /\ pair_map' = {}
                /\ results' = NoResults
           ELSE /\ fetcher' = init.fetcher
                /\ upc' = "submit"
                /\ pair_map' = Pairs
                /\ results' = NoResults
    /\ UNCHANGED <<storeVars, gapVars, params, tasks, sched, fetchCall, newVars>>

\* executor.submit(self._update_single_pair, pair_name, ...) for the next
\* pair of pair_map.keys()
UAP_Submit ==
    /\ upc = "submit"
    /\ LET todo == {p \in pair_map : tasks[p].st = "unsubmitted"} IN
       /\ todo # {}
       /\ tasks' = [tasks EXCEPT ![MinOf(todo)].st = "queued"]
       /\ upc' = IF todo = {MinOf(todo)} THEN "collect" ELSE "submit"
    /\ UNCHANGED <<storeVars, gapVars, params, fetcher, pair_map, results, sched, fetchCall, newVars>>

\* a worker thread takes the pair's work item and enters _update_single_pair
TaskStart(p) ==
    /\ tasks[p].st = "queued"
    /\ worker_available(tasks, params.max_workers)
    /\ tasks' = [tasks EXCEPT ![p].st = "begin", ![p].success = TRUE,
                              ![p].runs = tasks[p].runs + 1]
    /\ UNCHANGED <<storeVars, gapVars, params, fetcher, upc, pair_map, results, sched, fetchCall, newVars>>

\* "if update_latest:" with latest_ok the value update_latest_data returns;
\* reading update_config.get raises when the update section is not a mapping
TaskLatest(p, latest_ok) ==
    /\ tasks[p].st = "begin"
    /\ tasks' =
         IF ~params.update_latest
         THEN [tasks EXCEPT ![p].st = "after_latest"]
         ELSE IF ~params.config_ok
         THEN [tasks EXCEPT ![p].st = "done", ![p].raised = TRUE, ![p].ret = FALSE]
         ELSE [tasks EXCEPT ![p].st = "after_latest",
                            ![p].latest = BoolName(latest_ok),
                            ![p].success = success_and(tasks[p].success, latest_ok)]
    /\ UNCHANGED <<storeVars, gapVars, params, fetcher, upc, pair_map, results, sched, fetchCall, newVars>>

\* "if fill_gaps:" with gaps_ok the value fill_data_gaps returns, then
\* "return success"
TaskGaps(p, gaps_ok) ==
    /\ tasks[p].st = "after_latest"
    /\ tasks' =
         IF ~params.fill_gaps
         THEN [tasks EXCEPT ![p].st = "done", ![p].ret = tasks[p].success]
         ELSE LET success == success_and(tasks[p].success, gaps_ok) IN
              [tasks EXCEPT ![p].st = "done", ![p].gaps = BoolName(gaps_ok),
                            ![p].success = success, ![p].ret = success]
    /\ UNCHANGED <<storeVars, gapVars, params, fetcher, upc, pair_map, results, sched, fetchCall, newVars>>

\* one iteration of "for future in as_completed(future_to_pair)"
UAP_Collect(p) ==
    /\ upc = "collect"
    /\ tasks[p].st = "done"
    /\ p \notin DOMAIN results
    /\ results' = (p :> future_result(tasks[p])) @@ results
    /\ UNCHANGED <<storeVars, gapVars, params, fetcher, upc, pair_map, tasks, sched, fetchCall, newVars>>

\* the loop ends, the with block is left, results is returned and the
\* finally clause shuts MT5 down
UAP_Return ==
    /\ upc = "collect"
    /\ as_completed_done(tasks, results)
    /\ executor_joined(tasks)
    /\ fetcher' = fetcher_shutdown(fetcher, Unfinished(tasks) # {})
    /\ upc' = "returned"
    /\ UNCHANGED <<storeVars, gapVars, params, pair_map, tasks, results, sched, fetchCall, newVars>>

----------------------------------------------------------------------------
(* DataUpdater.run_scheduled_update *)

\* all(results.values())
all_values(res) == \A p \in DOMAIN res : res[p]

\* a retry test that sleeps after every failed attempt, the last included
should_retry_always(attempt, retry_attempts) == TRUE

\* "if attempt < retry_attempts:" before time.sleep(retry_delay)
should_retry(attempt, retry_attempts) == attempt < retry_attempts

NewSched ==
    [pc |-> "idle", attempt |-> 0, calls |-> 0, sleeps |-> 0,
     outcome |-> "none"]

\* run_scheduled_update is entered: reading the update configuration raises
\* when the update section is not a mapping (outer except, "Critical error")
SchedStart ==
    /\ params.mode = "scheduled"
    /\ sched.pc = "idle"
    /\ sched' = IF ~params.config_ok
                THEN [sched EXCEPT !.pc = "done", !.outcome = "critical"]
                ELSE IF params.retry_attempts < 1
                THEN [sched EXCEPT !.pc = "done", !.outcome = "no_attempt"]
                ELSE [sched EXCEPT !.pc = "loop", !.attempt = 1]
    /\ UNCHANGED <<storeVars, gapVars, params, fetcher, upc, pair_map, tasks, results, fetchCall, newVars>>

\* results = self.update_all_pairs(update_latest=True, fill_gaps=True)
SchedCall ==
    /\ sched.pc = "loop"
    /\ sched' = [sched EXCEPT !.pc = "in_call", !.calls = sched.calls + 1]
    /\ upc' = "start"
    /\ tasks' = NoTasks
    /\ pair_map' = {}
    /\ results' = NoResults
    /\ UNCHANGED <<storeVars, gapVars, params, fetcher, fetchCall, newVars>>

\* update_all_pairs has returned: succeed, sleep before the next attempt, or
\* give up
SchedAfter ==
    /\ sched.pc = "in_call"
    /\ upc = "returned"
    /\ sched' =
         IF all_values(results)
         THEN [sched EXCEPT !.pc = "done", !.outcome = "success"]
         ELSE IF should_retry(sched.attempt, params.retry_attempts)
         THEN [sched EXCEPT !.pc = "sleeping", !.sleeps = sched.sleeps + 1]
         ELSE [sched EXCEPT !.pc = "done", !.outcome = "all_failed"]
    /\ UNCHANGED <<storeVars, gapVars, params, fetcher, upc, pair_map, tasks, results, fetchCall, newVars>>

\* time.sleep(retry_delay) returns and the for loop takes the next attempt;
\* range(1, retry_attempts + 1) ends after attempt retry_attempts
SchedWake ==
    /\ sched.pc = "sleeping"
    /\ sched' = IF sched.attempt + 1 <= params.retry_attempts
                THEN [sched EXCEPT !.pc = "loop", !.attempt = sched.attempt + 1]
                ELSE [sched EXCEPT !.pc = "done", !.outcome = "all_failed"]
    /\ UNCHANGED <<storeVars, gapVars, params, fetcher, upc, pair_map, tasks, results, fetchCall, newVars>>

----------------------------------------------------------------------------
(* MT5Fetcher.fetch_ohlcv *)

StartDates == {"None", "datetime", "str"}
EndDates   == {"None", "datetime", "str"}
\* count: absent, at most max_candles_per_request, or above it
Counts     == {"None", "small", "large"}
\* what the MT5 copy_rates_* call does
Mt5Outcomes == {"rates", "empty", "None", "raise"}

FetchArgs ==
    [connected : BOOLEAN, symbol_ok : BOOLEAN, timeframe_ok : BOOLEAN,
     start_date : StartDates, end_date : EndDates, count : Counts,
     mt5 : Mt5Outcomes]

\* the keys of rate_args after "Process dates"; "unbound" when neither
\* branch assigned the variable
rate_args(start_date, count) ==
    IF start_date = "None"
    THEN IF count = "None" THEN "unbound" ELSE "count"
    ELSE "from_to"

\* MT5Fetcher._fetch_large_ohlcv: chunks or None, every error is caught
fetch_large_ohlcv(mt5) == IF mt5 = "rates" THEN "df" ELSE "None"

\* the try block of fetch_ohlcv around the MT5 request
fetch_rates(mt5) == IF mt5 = "rates" THEN "df" ELSE "None"

\* MT5Fetcher.fetch_ohlcv: what the call yields ("df", "None" or "raise"),
\* the MT5 query it made, where its range started, and the fetcher afterwards
fetch_ohlcv(f, a) ==
    LET init == fetcher_initialize(f, a.connected)
        none == [kind |-> "None", query |-> "none", from |-> "none",
                 fetcher |-> init.fetcher]
        args == rate_args(a.start_date, a.count)
    IN  IF ~init.ok THEN none
        ELSE IF ~a.symbol_ok THEN none
        ELSE IF ~a.timeframe_ok THEN none
        ELSE IF args = "unbound"
        THEN [none EXCEPT !.kind = "raise"]
        ELSE IF args = "count" /\ a.count = "large"
        THEN [none EXCEPT !.kind = fetch_large_ohlcv(a.mt5), !.query = "chunked"]
        ELSE IF args = "from_to"
        THEN [none EXCEPT !.kind = fetch_rates(a.mt5), !.query = "range",
                          !.from = "argument"]
        ELSE [none EXCEPT !.kind = fetch_rates(a.mt5), !.query = "from_pos"]

NoFetchCall ==
    [called |-> FALSE,
     args |-> [connected |-> FALSE, symbol_ok |-> FALSE, timeframe_ok |-> FALSE,
               start_date |-> "None", end_date |-> "None", count |-> "None",
               mt5 |-> "None"],
     kind |-> "None", query |-> "none", from |-> "none"]

\* one call fetcher.fetch_ohlcv(symbol, timeframe, start_date, end_date, count)
FetchOhlcv(a) ==
    /\ LET r == fetch_ohlcv(fetcher, a) IN
       /\ fetcher' = r.fetcher
       /\ fetchCall' = [called |-> TRUE, args |-> a, kind |-> r.kind,
                        query |-> r.query, from |-> r.from]
    /\ UNCHANGED <<storeVars, gapVars, params, upc, pair_map, tasks, results, sched,
                   newVars>>

\* fetcher.shutdown() between calls
FetchShutdown ==
    /\ fetcher.is_initialized
    /\ fetcher' = fetcher_shutdown(fetcher, FALSE)
    /\ UNCHANGED <<storeVars, gapVars, params, upc, pair_map, tasks, results, sched,
                   fetchCall, newVars>>

FetchStep ==
    \/ \E a \in FetchArgs : FetchOhlcv(a)
    \/ FetchShutdown

----------------------------------------------------------------------------
(* One store_price_data call on a table filled by earlier calls *)

\* the rows earlier calls can have left in the table: rounded candles
StoredRows == {ToRecord(r) : r \in FrameRows}

\* the tables earlier calls can have left: one row per timestamp
StoredTables == {T \in SUBSET StoredRows : \A r1, r2 \in T : r1.time = r2.time => r1 = r2}

NoStoreIn ==
    [pending |-> FALSE, frame |-> [kind |-> "none", rows |-> <<>>], dbFail |-> FALSE,
     before |-> {}]

\* the call store_price_data(pair, frame, timeframe) of storeIn is made
StoreOnce ==
    /\ storeIn.pending
    /\ StorePriceData(storeIn.frame, storeIn.dbFail)
    /\ storeIn' = [storeIn EXCEPT !.pending = FALSE]
    /\ UNCHANGED <<gapVars, updVars, fetchCall, resVars, pairVars, run, lateVars>>

----------------------------------------------------------------------------
(* DataResampler.resample_data *)

\* longest frame handed to resample_data
MaxResLen == 3

\* DataResampler.TIMEFRAME_MAP.keys()
ResamplerTimeframes == {"1m", "5m", "15m", "30m", "1h", "4h", "1d"}

\* TIMEFRAME_MAP[target_timeframe]: the width of a bucket, in minutes
resample_rule(timeframe) ==
    CASE timeframe = "1m"  -> 1
      [] timeframe = "5m"  -> 5
      [] timeframe = "15m" -> 15
      [] timeframe = "30m" -> 30
      [] timeframe = "1h"  -> 60
      [] timeframe = "4h"  -> 4 * 60
      [] timeframe = "1d"  -> 24 * 60

\* the left edge of the bucket of width `rule` that holds time t (buckets
\* are left-closed and start at midnight)
BinStart(t, rule) == (t \div rule) * rule

RECURSIVE InsertByTime(_, _)
\* the row put behind the rows of a sorted frame that are not later than it
InsertByTime(sorted, row) ==
    IF sorted = <<>> THEN <<row>>
    ELSE IF Head(sorted).time <= row.time
         THEN <<Head(sorted)>> \o InsertByTime(Tail(sorted), row)
         ELSE <<row>> \o sorted

RECURSIVE SortByTime(_)
\* resample() orders the frame by its index with a stable sort
SortByTime(rows) ==
    IF rows = <<>> THEN <<>>
    ELSE InsertByTime(SortByTime(SubSeq(rows, 1, Len(rows) - 1)), rows[Len(rows)])

RECURSIVE SumVolume(_)
\* 'volume': 'sum'
SumVolume(rows) ==
    IF rows = <<>> THEN 0 ELSE Head(rows).volume + SumVolume(Tail(rows))

\* NaN in a price column of the aggregated frame (no price is negative)
NaN == 0 - 1

\* .agg({...}) on the rows of one bucket, in index order
agg(bin, rows) ==
    IF rows = <<>>
    THEN [time |-> bin, open |-> NaN, high |-> NaN, low |-> NaN, close |-> NaN,
          volume |-> 0]
    ELSE [time   |-> bin,
          open   |-> rows[1].open,
          high   |-> MaxOf({rows[i].high : i \in 1..Len(rows)}),
          low    |-> MinOf({rows[i].low : i \in 1..Len(rows)}),
          close  |-> rows[Len(rows)].close,
          volume |-> SumVolume(rows)]

\* data.resample(rule).agg(...): one row for every bucket from the bucket of
\* the earliest row to the bucket of the latest one
resample_agg(rows, rule) ==
    LET sorted == SortByTime(rows)
        first  == BinStart(sorted[1].time, rule)
        last   == BinStart(sorted[Len(sorted)].time, rule)
        InBin(b) == SelectSeq(sorted, LAMBDA r : b <= r.time /\ r.time < b + rule)
    IN  [i \in 1..((last - first) \div rule + 1) |->
            agg(first + (i - 1) * rule, InBin(first + (i - 1) * rule))]

\* the empty buckets left in the frame
dropna_keeps_all(rows) == rows

\* resampled.dropna()
dropna(rows) == SelectSeq(rows, LAMBDA r : r.open # NaN)

NoneFrame == [kind |-> "none", rows |-> <<>>]

\* DataResampler.resample_data: None or the returned frame
resample_data(data, source_timeframe, target_timeframe) ==
    IF data.kind = "none" \/ Len(data.rows) = 0 THEN NoneFrame
    ELSE IF data.kind = "notime" THEN NoneFrame
    ELSE IF source_timeframe \notin ResamplerTimeframes THEN NoneFrame
    ELSE IF target_timeframe \notin ResamplerTimeframes THEN NoneFrame
    ELSE IF source_timeframe = target_timeframe
    THEN [kind |-> "index", rows |-> data.rows]
    ELSE [kind |-> "index",
          rows |-> dropna(resample_agg(data.rows, resample_rule(target_timeframe)))]

\* the times of the candles handed to resample_data
ResTimes == {0, 1, 4, 5, 11}

ResRows == {FrameRow(t, c) : t \in ResTimes, c \in Candles}

\* frames with pairwise different timestamps, in any order
ResRowSeqs ==
    {s \in UNION {[1..n -> ResRows] : n \in 0..MaxResLen} :
        \A i, j \in 1..Len(s) : i # j => s[i].time # s[j].time}

\* None, a frame without 'time', or rows with 'time' as a column or as index
ResFrames ==
    {NoneFrame, [kind |-> "notime", rows |-> <<FrameRow(0, CHOOSE c \in Candles : TRUE)>>]}
    \cup {[kind |-> k, rows |-> s] : k \in {"column", "index"}, s \in ResRowSeqs}

\* the timeframes resample_data is called with ("1w" is not in TIMEFRAME_MAP)
ResSourceTimeframes == {"1m", "5m", "1w"}
ResTargetTimeframes == {"1m", "5m", "15m", "1w"}

NoResCall == [called |-> FALSE, source |-> "1m", target |-> "1m", result |-> NoneFrame]

\* one call resample_data(data, source_timeframe, target_timeframe)
ResampleData(source, target) ==
    /\ resCall' = [called |-> TRUE, source |-> source, target |-> target,
                   result |-> resample_data(resIn, source, target)]
    /\ UNCHANGED <<storeVars, gapVars, updVars, fetchCall, resIn, getCall, ttable,
                   rsCall, pairVars, run, storeIn, lateVars>>

ResampleStep ==
    \E source \in ResSourceTimeframes, target \in ResTargetTimeframes :
        ResampleData(source, target)

----------------------------------------------------------------------------
(* DataManager.get_price_data *)

\* an optional argument: {} is None, {v} is the value v
None == {}
Some(v) == {v}
ValueOf(opt) == CHOOSE v \in opt : TRUE

\* .where(timestamp >= start_date) and .where(timestamp <= end_date), each
\* added only when the bound is given
where_range(tbl, start_date, end_date) ==
    {r \in tbl : /\ start_date # None => r.time >= ValueOf(start_date)
                 /\ end_date # None => r.time <= ValueOf(end_date)}

\* the rows of a result set in ORDER BY timestamp order
order_by_timestamp(rowset) ==
    LET ts == SortedSeq({r.time : r \in rowset})
    IN  [i \in 1..Len(ts) |-> CHOOSE r \in rowset : r.time = ts[i]]

\* a limit that is applied to the newest rows
query_limit_latest(rows, limit) ==
    IF limit # None /\ ValueOf(limit) # 0
    THEN SubSeq(rows, Len(rows) - MinOf({ValueOf(limit), Len(rows)}) + 1, Len(rows))
    ELSE rows

\* "if limit: query = query.limit(limit)"
query_limit(rows, limit) ==
    IF limit # None /\ ValueOf(limit) # 0
    THEN SubSeq(rows, 1, MinOf({ValueOf(limit), Len(rows)}))
    ELSE rows

\* DataManager.get_price_data: None or a frame indexed by 'time'
get_price_data(tbl, start_date, end_date, limit, dbError) ==
    IF dbError THEN NoneFrame
    ELSE LET rows == query_limit(order_by_timestamp(where_range(tbl, start_date, end_date)),
                                 limit)
         IN  IF rows = <<>> THEN NoneFrame
             ELSE [kind |-> "index", rows |-> rows]

\* the date bounds and limits get_price_data is called with
QueryDates == {None} \cup {Some(t) : t \in StoreTimes}
QueryLimits == {None} \cup {Some(n) : n \in 1..MaxFrameLen}

NoGetCall ==
    [called |-> FALSE, start_date |-> None, end_date |-> None, limit |-> None,
     dbError |-> FALSE, result |-> NoneFrame]

\* a candle is stored in the 1-minute table; an earlier query result is dropped
QueryStore(t, c) ==
    /\ StorePriceData([kind |-> "rows", rows |-> <<FrameRow(t, c)>>], FALSE)
    /\ getCall' = NoGetCall
    /\ UNCHANGED <<gapVars, updVars, fetchCall, resIn, resCall, ttable, rsCall,
                   pairVars, run, storeIn, lateVars>>

\* one call get_price_data(pair, "1m", start_date, end_date, limit)
GetPriceData(start_date, end_date, limit, dbError) ==
    /\ getCall' = [called |-> TRUE, start_date |-> start_date, end_date |-> end_date,
                   limit |-> limit, dbError |-> dbError,
                   result |-> get_price_data(table, start_date, end_date, limit, dbError)]
    /\ UNCHANGED <<storeVars, gapVars, updVars, fetchCall, resIn, resCall, ttable,
                   rsCall, pairVars, run, storeIn, lateVars>>

QueryStep ==
    \/ \E t \in StoreTimes, c \in Candles : QueryStore(t, c)
    \/ \E start_date \in QueryDates, end_date \in QueryDates, limit \in QueryLimits,
          dbError \in BOOLEAN : GetPriceData(start_date, end_date, limit, dbError)

----------------------------------------------------------------------------
(* DataResampler.get_resampled_price_data *)

\* the timeframe of the target table
TargetTimeframe == "5m"

NoRsCall ==
    [called |-> FALSE, start_date |-> None, end_date |-> None,
     store_result |-> FALSE, dbError |-> FALSE, from_db |-> FALSE,
     stored |-> FALSE, result |-> NoneFrame]

\* DataResampler.get_resampled_price_data(pair, "5m", start_date, end_date,
\* store_result): what it returns, whether the stored target rows served the
\* request, and the target table afterwards
get_resampled_price_data(m1, target, start_date, end_date, store_result, dbError) ==
    LET df == get_price_data(target, start_date, end_date, None, dbError) IN
    IF df.kind # "none" /\ Len(df.rows) > 0
    THEN [result |-> df, from_db |-> TRUE, target |-> target]
    ELSE
      LET m1_data == get_price_data(m1, start_date, end_date, None, dbError) IN
      IF m1_data.kind = "none" \/ Len(m1_data.rows) = 0
      THEN [result |-> NoneFrame, from_db |-> FALSE, target |-> target]
      ELSE
        LET resampled == resample_data(m1_data, "1m", TargetTimeframe) IN
        IF resampled.kind = "none"
        THEN [result |-> NoneFrame, from_db |-> FALSE, target |-> target]
        ELSE [result |-> resampled, from_db |-> FALSE,
              target |-> IF store_result
                         THEN store_price_data(target, resampled, dbError).table
                         ELSE target]

\* a candle is stored in the 1-minute table; the last request is forgotten
M1Store(t, c) ==
    /\ StorePriceData([kind |-> "rows", rows |-> <<FrameRow(t, c)>>], FALSE)
    /\ rsCall' = NoRsCall
    /\ UNCHANGED <<gapVars, updVars, fetchCall, resIn, resCall, getCall, ttable,
                   pairVars, run, storeIn, lateVars>>

\* one call get_resampled_price_data(pair, "5m", start_date, end_date, store_result)
GetResampledPriceData(start_date, end_date, store_result, dbError) ==
    LET r == get_resampled_price_data(table, ttable, start_date, end_date,
                                      store_result, dbError) IN
    /\ ttable' = r.target
    /\ rsCall' = [called |-> TRUE, start_date |-> start_date, end_date |-> end_date,
                  store_result |-> store_result, dbError |-> dbError,
                  from_db |-> r.from_db, stored |-> r.target # ttable,
                  result |-> r.result]
    /\ UNCHANGED <<storeVars, gapVars, updVars, fetchCall, resIn, resCall, getCall,
                   pairVars, run, storeIn, lateVars>>

ResampledStep ==
    \/ \E t \in StoreTimes, c \in Candles : M1Store(t, c)
    \/ \E start_date \in QueryDates, end_date \in QueryDates, store_result \in BOOLEAN,
          dbError \in BOOLEAN :
          GetResampledPriceData(start_date, end_date, store_result, dbError)

----------------------------------------------------------------------------
(* DataManager.ensure_currency_pairs and the currency_pairs table *)

\* pair_config.get("pip_value", 0.0001), counted in units of 1e-5
DefaultPipValue == 10
\* pair_config.get("spread_avg", 0)
DefaultSpreadAvg == 0

\* pair_config.get(key, default)
config_get(opt, default) == IF opt = None THEN default ELSE ValueOf(opt)

\* the values the configuration gives a pair, defaults filled in
configured(pair_config) ==
    [description |-> config_get(pair_config.description, ""),
     pip_value   |-> config_get(pair_config.pip_value, DefaultPipValue),
     spread_avg  |-> config_get(pair_config.spread_avg, DefaultSpreadAvg)]

\* the Integer primary key the database gives a new row
next_id(rows) == IF rows = {} THEN 1 ELSE MaxOf({r.id : r \in rows}) + 1

\* CurrencyPair(name=..., description=..., pip_value=..., spread_avg=...)
new_pair(rows, pair_config) ==
    [id |-> next_id(rows), name |-> pair_config.name,
     description |-> configured(pair_config).description,
     pip_value   |-> configured(pair_config).pip_value,
     spread_avg  |-> configured(pair_config).spread_avg]

\* an update that compares and rewrites the description only
update_pair_description_only(pair, pair_config) ==
    [pair EXCEPT !.description = configured(pair_config).description]

\* "Update existing pair if needed": each field that differs from the
\* configuration is overwritten
update_pair(pair, pair_config) ==
    LET cfg == configured(pair_config) IN
    [pair EXCEPT
       !.description = IF pair.description # cfg.description
                       THEN cfg.description ELSE pair.description,
       !.pip_value   = IF pair.pip_value # cfg.pip_value
                       THEN cfg.pip_value ELSE pair.pip_value,
       !.spread_avg  = IF pair.spread_avg # cfg.spread_avg
                       THEN cfg.spread_avg ELSE pair.spread_avg]

RECURSIVE ensure_loop(_, _, _, _, _)
\* "for pair_config in config_pairs" from entry i on; the session raises at
\* entry failAt (0: never), after the commits of the entries before it
ensure_loop(rows, id_map, config, i, failAt) ==
    IF i > Len(config) THEN [rows |-> rows, pair_map |-> id_map, raised |-> FALSE]
    ELSE IF i = failAt THEN [rows |-> rows, pair_map |-> <<>>, raised |-> TRUE]
    ELSE
      LET pair_config == config[i]
          found == {r \in rows : r.name = pair_config.name}
      IN  IF found = {}
          THEN LET pair == new_pair(rows, pair_config) IN
               ensure_loop(rows \cup {pair}, (pair_config.name :> pair.id) @@ id_map,
                           config, i + 1, failAt)
          ELSE LET old  == CHOOSE r \in found : TRUE
                   pair == update_pair(old, pair_config)
               IN  ensure_loop((rows \ {old}) \cup {pair},
                               (pair_config.name :> pair.id) @@ id_map,
                               config, i + 1, failAt)

\* DataManager.ensure_currency_pairs
ensure_currency_pairs(rows, config, failAt) == ensure_loop(rows, <<>>, config, 1, failAt)

\* the settings a configuration entry is drawn from: all defaults, a
\* description only, or pip_value and spread_avg
ConfigShapes ==
    { [description |-> None, pip_value |-> None, spread_avg |-> None],
      [description |-> Some("Euro vs US Dollar"), pip_value |-> None, spread_avg |-> None],
      [description |-> None, pip_value |-> Some(1000), spread_avg |-> Some(2)] }

PairConfig(name, shape) ==
    [name |-> name, description |-> shape.description,
     pip_value |-> shape.pip_value, spread_avg |-> shape.spread_avg]

\* the configurations: some of the pairs, each named once, in name order
PairConfigs ==
    UNION { { [i \in 1..Cardinality(S) |-> PairConfig(SortedSeq(S)[i], f[SortedSeq(S)[i]])] :
                f \in [S -> ConfigShapes] } : S \in SUBSET (1..NumPairs) }

NoEcpCall ==
    [called |-> FALSE, raised |-> FALSE, pair_map |-> <<>>, changed |-> FALSE,
     again |-> FALSE]

\* one call ensure_currency_pairs()
EnsureCurrencyPairs(failAt) ==
    LET r == ensure_currency_pairs(currency_pairs, config_pairs, failAt) IN
    /\ currency_pairs' = r.rows
    /\ ecpCall' = [called |-> TRUE, raised |-> r.raised, pair_map |-> r.pair_map,
                   changed |-> r.rows # currency_pairs,
                   again |-> ecpCall.called /\ ~ecpCall.raised]
    /\ UNCHANGED <<storeVars, gapVars, updVars, fetchCall, resVars, config_pairs, run, storeIn, lateVars>>

\* the configuration file is edited between two calls
ConfigChange(config) ==
    /\ config # config_pairs
    /\ config_pairs' = config
    /\ ecpCall' = NoEcpCall
    /\ UNCHANGED <<storeVars, gapVars, updVars, fetchCall, resVars, currency_pairs, run, storeIn, lateVars>>

PairsStep ==
    \/ \E failAt \in 0..NumPairs : EnsureCurrencyPairs(failAt)
    \/ \E config \in PairConfigs : ConfigChange(config)

----------------------------------------------------------------------------
(* One pair on concrete data: update_latest_data, fill_data_gaps and        *)
(* _update_single_pair against the 1-minute table and the broker's history *)

\* last_n_candles of the count-based request
LastNCandles == 2
\* max_gap_days of fill_data_gaps: the default, and the value of the test
DefaultMaxGapDays == 30
TestMaxGapDays == 2

\* a finished one-minute bar and the bar of the minute that is still forming
FinishedBar == CHOOSE c \in Candles : c.volume = 3
FormingBar  == CHOOSE c \in Candles : c.volume = 5

\* the minutes for which the broker has a finished bar
BrokerTimes ==
    (0..7) \cup { At(0, 4, 22, 30), At(0, 4, 22, 31), At(0, 6, 22, 0),
                  At(0, 6, 22, 1), At(1, 0, 0, 0), At(1, 0, 0, 1) }

\* the rows of the bars at the given minutes, oldest first
BarsAt(times, now) ==
    LET ts == SortedSeq(times)
    IN  [i \in 1..Len(ts) |->
            FrameRow(ts[i], IF ts[i] = now THEN FormingBar ELSE FinishedBar)]

\* mt5.copy_rates_from_pos(symbol, M1, 0, count): the newest count bars;
\* position 0 is the bar of the current minute when it has a tick already
copy_rates_from_pos(now, count, forming) ==
    LET ts == SortedSeq({t \in BrokerTimes : t < now} \cup (IF forming THEN {now} ELSE {}))
        n  == MinOf({count, Len(ts)})
    IN  BarsAt(Range(SubSeq(ts, Len(ts) - n + 1, Len(ts))), now)

\* a range request without its upper end: every bar from from_date on
copy_rates_range_open_end(from_date, to_date, now) ==
    BarsAt({t \in BrokerTimes : from_date <= t /\ t < now}, now)

\* mt5.copy_rates_range(symbol, M1, from_date, to_date)
copy_rates_range(from_date, to_date, now) ==
    BarsAt({t \in BrokerTimes : from_date <= t /\ t <= to_date /\ t < now}, now)

\* fetch_ohlcv after the MT5 request: None for no rates, else the frame of
\* _rates_to_dataframe (indexed by time); mt5 "None" is a failed request
rates_to_frame(rates, mt5) ==
    IF mt5 # "rates" \/ Len(rates) = 0 THEN NoneFrame
    ELSE [kind |-> "index", rows |-> rates]

\* DataUpdater.update_latest_data (the definition in effect): the frame
\* handed to store_price_data, the table afterwards and the returned value
update_latest_data(tbl, df, dbFail) ==
    IF df.kind = "none" \/ Len(df.rows) = 0
    THEN [ret |-> FALSE, table |-> tbl, passed |-> <<>>]
    ELSE LET r == store_price_data(tbl, df, dbFail)
         IN  [ret |-> r.ret, table |-> r.table, passed |-> df.rows]

\* DataUpdater._get_market_close_time
updater_market_close_time(cal, day) ==
    LET e == FirstForDay(cal.forex_market_open, day)
    IN  IF e.found THEN e.hh ELSE DefaultCloseHour

\* DataUpdater._get_market_open_time
updater_market_open_time(cal, day) ==
    LET e == FirstForDay(cal.forex_market_open, day)
    IN  IF e.found THEN e.hh ELSE DefaultOpenHour

\* a weekend test that looks at the start of the gap only
updater_is_weekend_gap_friday_only(cal, start, end) ==
    /\ ~cal.weekend_trading
    /\ weekday(start) = 4
    /\ hour(start) >= updater_market_close_time(cal, 4)

\* DataUpdater._is_weekend_gap
updater_is_weekend_gap(cal, start, end) ==
    /\ ~cal.weekend_trading
    /\ weekday(end) = 0 /\ weekday(start) = 4
    /\ hour(start) >= updater_market_close_time(cal, 4)
    /\ hour(end) <= updater_market_open_time(cal, 0)

\* "if gap_size > max_gap_timedelta: continue"
gap_too_large(gap, max_gap_days) == gap[2] - gap[1] > max_gap_days * 24 * 60

\* gaps.sort(key=lambda x: x[0]); the starts of the gaps are distinct
sort_gaps(gaps) ==
    LET starts == SortedSeq({gaps[i][1] : i \in 1..Len(gaps)})
    IN  [i \in 1..Len(starts) |->
            gaps[CHOOSE j \in 1..Len(gaps) : gaps[j][1] = starts[i]]]

\* gap filling that is skipped once the latest update has failed
fill_requested_if_latest_ok(success, fill_gaps) == success /\ fill_gaps

\* "if fill_gaps:" in _update_single_pair
fill_requested(success, fill_gaps) == fill_gaps

\* the value fill_data_gaps returns after its loop
fill_loop_result(filled_gaps, store_failed) == TRUE

NewRun(mode, update_latest, fill_gaps, timeframe, max_gap_days, now) ==
    [mode |-> mode, update_latest |-> update_latest, fill_gaps |-> fill_gaps,
     timeframe |-> timeframe, max_gap_days |-> max_gap_days, now |-> now,
     pc |-> "start", success |-> TRUE,
     latest |-> "notcalled", passed |-> {}, prev_newest |-> None,
     fill |-> "notcalled", queried |-> FALSE, dbError |-> FALSE, gaps |-> <<>>,
     i |-> 1, requests |-> <<>>, fetched |-> <<>>, filled_gaps |-> 0,
     store_failed |-> FALSE, prev_requests |-> {}, ret |-> "none"]

IdleRun == [NewRun("pair", FALSE, FALSE, "1m", DefaultMaxGapDays, 0) EXCEPT !.pc = "idle"]

\* "if update_latest:" of _update_single_pair on the pair's table
PairLatest(forming, mt5, dbFail) ==
    /\ run.mode = "pair" /\ run.pc = "start"
    /\ IF ~run.update_latest
       THEN /\ run' = [run EXCEPT !.pc = "after_latest"]
            /\ UNCHANGED storeVars
       ELSE LET df == rates_to_frame(copy_rates_from_pos(run.now, LastNCandles, forming), mt5)
                r  == update_latest_data(table, df, dbFail)
            IN  /\ table' = r.table
                /\ storeCall' = storeCall
                /\ run' = [run EXCEPT
                      !.pc = "after_latest",
                      !.latest = BoolName(r.ret),
                      !.success = success_and(run.success, r.ret),
                      !.passed = {r.passed[k].time : k \in 1..Len(r.passed)},
                      !.prev_newest = IF table = {} THEN None
                                      ELSE Some(MaxOf(TableTimes(table)))]
    /\ UNCHANGED <<gapVars, updVars, fetchCall, resVars, pairVars, storeIn, lateVars>>

\* fill_data_gaps up to its loop: the timeframe test, find_data_gaps and the
\* sort; in _update_single_pair it runs after "if fill_gaps:"
FillBegin(dbError) ==
    /\ \/ run.mode = "pair" /\ run.pc = "after_latest"
       \/ run.mode = "fill" /\ run.pc = "start"
    /\ IF run.mode = "pair" /\ ~fill_requested(run.success, run.fill_gaps)
       THEN run' = [run EXCEPT !.pc = "done", !.ret = BoolName(run.success)]
       ELSE IF run.timeframe # "1m"
       THEN run' = [run EXCEPT !.pc = "done", !.fill = "False",
                               !.success = success_and(run.success, FALSE),
                               !.ret = "False"]
       ELSE LET gaps == find_data_gaps(table, run.timeframe, calendar, dbError) IN
            IF gaps = <<>>
            THEN run' = [run EXCEPT !.pc = "done", !.fill = "True", !.queried = TRUE,
                                    !.dbError = dbError,
                                    !.success = success_and(run.success, TRUE),
                                    !.ret = BoolName(success_and(run.success, TRUE))]
            ELSE run' = [run EXCEPT !.pc = "fill_loop", !.queried = TRUE,
                                    !.dbError = dbError,
                                    !.gaps = sort_gaps(gaps), !.i = 1]
    /\ UNCHANGED <<storeVars, gapVars, updVars, fetchCall, resVars, pairVars, storeIn, lateVars>>

\* one iteration of "for gap_start, gap_end in gaps"
FillGap(mt5, dbFail) ==
    /\ run.pc = "fill_loop" /\ run.i <= Len(run.gaps)
    /\ LET gap == run.gaps[run.i] IN
       IF \/ gap_too_large(gap, run.max_gap_days)
          \/ updater_is_weekend_gap(calendar, gap[1], gap[2])
       THEN /\ run' = [run EXCEPT !.i = run.i + 1]
            /\ UNCHANGED storeVars
       ELSE LET gap_df == rates_to_frame(copy_rates_range(gap[1], gap[2], run.now), mt5)
                asked  == Append(run.requests, gap)
                got    == Append(run.fetched,
                                 {gap_df.rows[k].time : k \in 1..Len(gap_df.rows)})
            IN  IF gap_df.kind = "none" \/ Len(gap_df.rows) = 0
                THEN /\ run' = [run EXCEPT !.i = run.i + 1, !.requests = asked,
                                           !.fetched = got]
                     /\ UNCHANGED storeVars
                ELSE LET r == store_price_data(table, gap_df, dbFail) IN
                     /\ table' = r.table
                     /\ storeCall' = storeCall
                     /\ run' = [run EXCEPT
                           !.i = run.i + 1, !.requests = asked, !.fetched = got,
                           !.filled_gaps = IF r.ret THEN run.filled_gaps + 1
                                           ELSE run.filled_gaps,
                           !.store_failed = run.store_failed \/ ~r.ret]
    /\ UNCHANGED <<gapVars, updVars, fetchCall, resVars, pairVars, storeIn, lateVars>>

\* the loop is over: fill_data_gaps returns, and so does _update_single_pair
FillReturn ==
    /\ run.pc = "fill_loop" /\ run.i > Len(run.gaps)
    /\ LET gaps_success == fill_loop_result(run.filled_gaps, run.store_failed) IN
       run' = [run EXCEPT !.pc = "done", !.fill = BoolName(gaps_success),
                          !.success = success_and(run.success, gaps_success),
                          !.ret = BoolName(success_and(run.success, gaps_success))]
    /\ UNCHANGED <<storeVars, gapVars, updVars, fetchCall, resVars, pairVars, storeIn, lateVars>>

\* the next run on the same pair (the updater script is started again): the
\* table stays, the ranges the finished run asked the broker for are kept
RunAgain(now) ==
    /\ run.pc = "done" /\ now >= run.now
    /\ run' = [NewRun(run.mode, run.update_latest, run.fill_gaps, run.timeframe,
                      run.max_gap_days, now)
                  EXCEPT !.prev_requests = Range(run.requests)]
    /\ UNCHANGED <<storeVars, gapVars, updVars, fetchCall, resVars, pairVars, storeIn, lateVars>>

PairStep ==
    \/ \E forming \in BOOLEAN, mt5 \in {"rates", "None"}, dbFail \in BOOLEAN :
          PairLatest(forming, mt5, dbFail)
    \/ \E dbError \in BOOLEAN : FillBegin(dbError)
    \/ \E mt5 \in {"rates", "None"}, dbFail \in BOOLEAN : FillGap(mt5, dbFail)
    \/ FillReturn

----------------------------------------------------------------------------
(* Two store_price_data calls on the same table at the same time: each call *)
(* reads the existing timestamps in one connection and inserts in another   *)

\* the callers (two updater runs that overlap in time)
Callers == 1..2

NoCall == [pc |-> "idle", frame |-> NoneFrame, existing_times |-> {}, ret |-> FALSE]

\* store_price_data up to and including the SELECT of the existing
\* timestamps; the early returns end the call
StoreRead(c) ==
    /\ calls[c].pc = "start"
    /\ LET frame == calls[c].frame IN
       IF frame.kind = "none" \/ Len(frame.rows) = 0 \/ frame.kind = "notime"
       THEN calls' = [calls EXCEPT ![c].pc = "done", ![c].ret = FALSE]
       ELSE calls' = [calls EXCEPT ![c].pc = "read",
                                   ![c].existing_times = ExistingTimes(table, frame.rows)]
    /\ UNCHANGED <<storeVars, gapVars, updVars, fetchCall, resVars, pairVars, run,
                   storeIn, rlCall>>

\* the rest of store_price_data: the filter on the timestamps read before,
\* and the insert of what is left in one transaction
StoreInsert(c) ==
    /\ calls[c].pc = "read"
    /\ LET existing_times == calls[c].existing_times
           rows == calls[c].frame.rows
           data == IF existing_times # {} THEN FilterExisting(rows, existing_times)
                   ELSE rows
       IN  IF Len(data) = 0
           THEN /\ calls' = [calls EXCEPT ![c].pc = "done", ![c].ret = TRUE]
                /\ UNCHANGED table
           ELSE LET records == [i \in 1..Len(data) |-> ToRecord(data[i])]
                    ins == DbInsert(table, records, FALSE)
                IN  /\ table' = ins.table
                    /\ calls' = [calls EXCEPT ![c].pc = "done", ![c].ret = ins.ok]
    /\ UNCHANGED <<storeCall, gapVars, updVars, fetchCall, resVars, pairVars, run,
                   storeIn, rlCall>>

RaceStep == \E c \in Callers : StoreRead(c) \/ StoreInsert(c)

\* the frames of the two callers: candles of different minutes, oldest first
RaceFrames ==
    {[kind |-> "index",
      rows |-> [i \in 1..Cardinality(S) |-> FrameRow(SortedSeq(S)[i], c)]] :
        S \in {T \in SUBSET StoreTimes : T # {} /\ Cardinality(T) <= MaxFrameLen},
        c \in Candles}

----------------------------------------------------------------------------
(* DataResampler.resample_latest_data *)

\* longest target_timeframes list
MaxTimeframes == 2

\* the timeframes a caller asks for ("1w" is unknown to the resampler)
LatestTimeframes == {"1m", TargetTimeframe, "1w"}

RECURSIVE resample_loop(_, _, _, _, _)
\* "for tf in target_timeframes" from index i on: the results map as a set of
\* (timeframe, success) entries, a later entry replacing an earlier one of the
\* same timeframe, and the target table afterwards
resample_loop(m1_data, target, target_timeframes, i, dbFail) ==
    IF i > Len(target_timeframes) THEN [results |-> {}, target |-> target]
    ELSE
      LET tf == target_timeframes[i]
          resampled == resample_data(m1_data, "1m", tf)
          stored == store_price_data(target, resampled, dbFail)
          success == IF tf = "1m" THEN TRUE
                     ELSE IF resampled.kind # "none" THEN stored.ret
                     ELSE FALSE
          after == IF tf # "1m" /\ resampled.kind # "none" THEN stored.table
                   ELSE target
          rest == resample_loop(m1_data, after, target_timeframes, i + 1, dbFail)
      IN  [results |-> {e \in {<<tf, success>>} :
                          \A e2 \in rest.results : e2[1] # tf} \cup rest.results,
           target |-> rest.target]

\* DataResampler.resample_latest_data(pair, target_timeframes, lookback_days)
\* called at end_date, with start_date = end_date - lookback_days
resample_latest_data(m1, target, target_timeframes, start_date, end_date, dbError, dbFail) ==
    LET m1_data == get_price_data(m1, Some(start_date), Some(end_date), None, dbError) IN
    IF m1_data.kind = "none" \/ Len(m1_data.rows) = 0
    THEN [results |-> {<<target_timeframes[i], FALSE>> : i \in 1..Len(target_timeframes)},
          target |-> target]
    ELSE resample_loop(m1_data, target, target_timeframes, 1, dbFail)

NoRlCall ==
    [called |-> FALSE, target_timeframes |-> <<>>, start_date |-> 0, results |-> {}]

\* a candle is stored in the 1-minute table; the last request is forgotten
LatestM1Store(t, c) ==
    /\ StorePriceData([kind |-> "rows", rows |-> <<FrameRow(t, c)>>], FALSE)
    /\ rlCall' = NoRlCall
    /\ UNCHANGED <<gapVars, updVars, fetchCall, resVars, pairVars, run, storeIn, calls>>

\* one call resample_latest_data(pair, target_timeframes, lookback_days) after
\* the newest stored minute; the lookback window starts at start_date
ResampleLatestData(target_timeframes, start_date, dbError, dbFail) ==
    LET r == resample_latest_data(table, ttable, target_timeframes, start_date,
                                  MaxTime + 1, dbError, dbFail) IN
    /\ ttable' = r.target
    /\ rlCall' = [called |-> TRUE, target_timeframes |-> target_timeframes,
                  start_date |-> start_date, results |-> r.results]
    /\ UNCHANGED <<storeVars, gapVars, updVars, fetchCall, resIn, resCall, getCall,
                   rsCall, pairVars, run, storeIn, calls>>

LatestStep ==
    \/ \E t \in StoreTimes, c \in Candles : LatestM1Store(t, c)
    \/ \E n \in 1..MaxTimeframes, start_date \in StoreTimes,
          dbError \in BOOLEAN, dbFail \in BOOLEAN :
          \E target_timeframes \in [1..n -> LatestTimeframes] :
             ResampleLatestData(target_timeframes, start_date, dbError, dbFail)

----------------------------------------------------------------------------
(* Specifications *)

DirectParams ==
    [mode : {"direct"}, update_latest : BOOLEAN, fill_gaps : BOOLEAN,
     max_workers : 1..MaxWorkers, retry_attempts : {0}, config_ok : BOOLEAN]

ScheduledParams ==
    [mode : {"scheduled"}, update_latest : {TRUE}, fill_gaps : {TRUE},
     max_workers : {DefaultMaxWorkers}, retry_attempts : 0..MaxAttempts,
     config_ok : BOOLEAN]

DefaultCalendar == [weekend_trading |-> FALSE, forex_market_open |-> <<>>]

IdleStore == table = {} /\ storeCall = NoStoreCall

IdleGaps == gapCall = NoGapCall

IdleUpdater ==
    /\ params = CHOOSE x \in ScheduledParams : TRUE
    /\ fetcher = NewFetcher
    /\ upc = "idle"
    /\ pair_map = {}
    /\ tasks = NoTasks
    /\ results = NoResults
    /\ sched = NewSched

IdleResample == resIn = NoneFrame /\ resCall = NoResCall

IdleQuery == getCall = NoGetCall

IdleResampled == ttable = {} /\ rsCall = NoRsCall

IdleCurrencyPairs ==
    currency_pairs = {} /\ config_pairs = <<>> /\ ecpCall = NoEcpCall

IdleStoreIn == storeIn = NoStoreIn

IdleLate == calls = [c \in Callers |-> NoCall] /\ rlCall = NoRlCall

IdleNew ==
    /\ IdleResample /\ IdleQuery /\ IdleResampled /\ IdleCurrencyPairs
    /\ run = IdleRun /\ IdleStoreIn /\ IdleLate

\* a new DataUpdater whose run_scheduled_update is about to be called, or a
\* direct caller of update_all_pairs (scripts/data_updater.py calls
\* initialize() first)
Init ==
    /\ IdleStore /\ IdleGaps /\ calendar = DefaultCalendar
    /\ fetchCall = NoFetchCall /\ IdleNew
    /\ params \in DirectParams \cup ScheduledParams
    /\ fetcher \in [is_initialized : IF params.mode = "direct" THEN BOOLEAN ELSE {FALSE},
                    closed_while_busy : {FALSE}]
    /\ upc = IF params.mode = "direct" THEN "start" ELSE "idle"
    /\ pair_map = {}
    /\ tasks = NoTasks
    /\ results = NoResults
    /\ sched = NewSched

Next ==
    \/ \E connected \in BOOLEAN, pairs \in {"ok", "empty", "raise"} :
          UAP_Begin(connected, pairs)
    \/ UAP_Submit
    \/ \E p \in Pairs : TaskStart(p)
    \/ \E p \in Pairs, ok \in BOOLEAN : TaskLatest(p, ok)
    \/ \E p \in Pairs, ok \in BOOLEAN : TaskGaps(p, ok)
    \/ \E p \in Pairs : UAP_Collect(p)
    \/ UAP_Return
    \/ SchedStart
    \/ SchedCall
    \/ SchedAfter
    \/ SchedWake

Spec == Init /\ [][Next]_vars

InitStore ==
    /\ IdleStore /\ IdleGaps /\ calendar = DefaultCalendar
    /\ IdleUpdater /\ fetchCall = NoFetchCall /\ IdleNew

SpecStore == InitStore /\ [][StoreStep]_vars

InitGaps ==
    /\ IdleStore /\ IdleGaps /\ calendar \in Calendars
    /\ IdleUpdater /\ fetchCall = NoFetchCall /\ IdleNew

SpecGaps == InitGaps /\ [][GapStep]_vars

InitFetch ==
    /\ IdleStore /\ IdleGaps /\ calendar = DefaultCalendar
    /\ IdleUpdater /\ fetchCall = NoFetchCall /\ IdleNew

SpecFetch == InitFetch /\ [][FetchStep]_vars

\* a store_price_data call, about to be made, on any table earlier calls
\* can have left
InitStoreOnce ==
    /\ IdleLate
    /\ storeCall = NoStoreCall /\ IdleGaps /\ calendar = DefaultCalendar
    /\ IdleUpdater /\ fetchCall = NoFetchCall
    /\ IdleResample /\ IdleQuery /\ IdleResampled /\ IdleCurrencyPairs
    /\ run = IdleRun
    /\ table \in StoredTables
    /\ \E frame \in Frames, dbFail \in BOOLEAN :
          storeIn = [pending |-> TRUE, frame |-> frame, dbFail |-> dbFail,
                     before |-> table]

SpecStoreOnce == InitStoreOnce /\ [][StoreOnce]_vars

\* resample_data applied to a frame drawn from the bounded frames
InitResample ==
    /\ IdleLate
    /\ IdleStore /\ IdleGaps /\ calendar = DefaultCalendar
    /\ IdleUpdater /\ fetchCall = NoFetchCall
    /\ resIn \in ResFrames /\ resCall = NoResCall
    /\ IdleQuery /\ IdleResampled /\ IdleCurrencyPairs /\ run = IdleRun
    /\ IdleStoreIn

SpecResample == InitResample /\ [][ResampleStep]_vars

SpecQuery == InitStore /\ [][QueryStep]_vars

SpecResampled == InitStore /\ [][ResampledStep]_vars

\* an empty currency_pairs table and any of the configurations
InitCurrencyPairs ==
    /\ IdleLate
    /\ IdleStore /\ IdleGaps /\ calendar = DefaultCalendar
    /\ IdleUpdater /\ fetchCall = NoFetchCall
    /\ IdleResample /\ IdleQuery /\ IdleResampled
    /\ currency_pairs = {} /\ config_pairs \in PairConfigs /\ ecpCall = NoEcpCall
    /\ run = IdleRun /\ IdleStoreIn

SpecCurrencyPairs == InitCurrencyPairs /\ [][PairsStep]_vars

\* the minutes of the candles stored by earlier runs
RunTimes == {0, 1, 4, At(0, 4, 22, 30), At(0, 6, 22, 0), At(1, 0, 0, 0)}

\* the current minute of a run
NowTimes == {3, 7, At(1, 0, 0, 2)}

RunCalendars ==
    { DefaultCalendar,
      [weekend_trading |-> FALSE,
       forex_market_open |-> << [day |-> 6, time |-> HHMM(22, 0)] >>] }

\* _update_single_pair(pair, update_latest, fill_gaps), or a direct call
\* fill_data_gaps(pair, timeframe, max_gap_days)
Runs ==
    {NewRun("pair", ul, fg, "1m", DefaultMaxGapDays, now) :
        ul \in BOOLEAN, fg \in BOOLEAN, now \in NowTimes}
    \cup {NewRun("fill", FALSE, TRUE, tf, days, now) :
            tf \in {"1m", "5m"}, days \in {TestMaxGapDays, DefaultMaxGapDays},
            now \in NowTimes}

\* a run starts on a table that holds finished bars of earlier minutes
InitRun ==
    /\ IdleLate
    /\ storeCall = NoStoreCall /\ IdleGaps /\ IdleUpdater /\ fetchCall = NoFetchCall
    /\ IdleResample /\ IdleQuery /\ IdleResampled /\ IdleCurrencyPairs /\ IdleStoreIn
    /\ calendar \in RunCalendars
    /\ run \in Runs
    /\ \E S \in SUBSET RunTimes :
          /\ Cardinality(S) <= MaxRows
          /\ \A t \in S : t < run.now
          /\ table = {ToRecord(FrameRow(t, FinishedBar)) : t \in S}

SpecRun == InitRun /\ [][PairStep]_vars

\* the minutes stored before the first of several runs on one pair
ConvergeTimes == {1, 4, At(0, 4, 22, 31), At(0, 4, 22, 35)}

\* the current minute of the runs
ConvergeNows == {7, At(1, 0, 0, 2)}

\* the scheduled full update of a pair, or fill_data_gaps called directly
ConvergeRuns ==
    {NewRun("pair", TRUE, TRUE, "1m", DefaultMaxGapDays, now) : now \in ConvergeNows}
    \cup {NewRun("fill", FALSE, TRUE, "1m", days, now) :
            days \in {TestMaxGapDays, DefaultMaxGapDays}, now \in ConvergeNows}

InitConverge ==
    /\ IdleLate
    /\ storeCall = NoStoreCall /\ IdleGaps /\ IdleUpdater /\ fetchCall = NoFetchCall
    /\ IdleResample /\ IdleQuery /\ IdleResampled /\ IdleCurrencyPairs /\ IdleStoreIn
    /\ calendar \in RunCalendars
    /\ run \in ConvergeRuns
    /\ \E S \in SUBSET ConvergeTimes :
          /\ Cardinality(S) <= MaxRows
          /\ \A t \in S : t < run.now
          /\ table = {ToRecord(FrameRow(t, FinishedBar)) : t \in S}

ConvergeStep ==
    \/ PairStep
    \/ \E now \in ConvergeNows : RunAgain(now)

SpecConverge == InitConverge /\ [][ConvergeStep]_vars

\* two callers are about to store overlapping frames in a table earlier
\* calls have left
InitRace ==
    /\ storeCall = NoStoreCall /\ IdleGaps /\ calendar = DefaultCalendar
    /\ IdleUpdater /\ fetchCall = NoFetchCall
    /\ IdleResample /\ IdleQuery /\ IdleResampled /\ IdleCurrencyPairs
    /\ run = IdleRun /\ IdleStoreIn /\ rlCall = NoRlCall
    /\ table \in StoredTables
    /\ calls \in [Callers -> {[NoCall EXCEPT !.pc = "start", !.frame = f] :
                                 f \in RaceFrames}]

SpecRace == InitRace /\ [][RaceStep]_vars

SpecLatest == InitStore /\ [][LatestStep]_vars

----------------------------------------------------------------------------
(* Claims *)

\* C1: after any sequence of sequential store_price_data calls every
\* timestamp occurs at most once in the price table, and no call fails with a
\* primary-key collision against a row that was already stored (rows whose
\* time is already stored are skipped, never sent to the insert).
C1_NoDuplicateTimestamps ==
    /\ \A r1, r2 \in table : r1.time = r2.time => r1 = r2
    /\ storeCall.err # "pk_existing"

\* a call whose frame overlapped the table: some rows skipped, the rest stored
C1_Witness ==
    /\ storeCall.called /\ storeCall.ret
    /\ storeCall.skipped >= 1 /\ storeCall.inserted >= 1

\* the consecutive pairs of the sorted stored timestamps
ConsecutivePairs(tbl) ==
    LET ts == SortedSeq(TableTimes(tbl))
    IN  [i \in 1..(Len(ts) - 1) |-> <<ts[i], ts[i + 1]>>]

\* the gaps as the claim describes them: consecutive timestamps whose
\* difference exceeds the expected interval and that are no weekend gap
ClaimedGaps(tbl, timeframe, cal) ==
    LET IsGap(pr) == /\ pr[2] - pr[1] > expected_delta(timeframe)
                     /\ ~is_weekend_gap(cal, pr[1], pr[2])
    IN  SelectSeq(ConsecutivePairs(tbl), IsGap)

\* C2: for a supported timeframe find_data_gaps returns exactly the pairs of
\* consecutive stored timestamps, in ascending order, whose difference exceeds
\* the expected interval of the timeframe and that are not weekend gaps.
C2_GapsAreDeltasAboveInterval ==
    (gapCall.called /\ ~gapCall.dbError /\ gapCall.timeframe \in SupportedTimeframes)
        => gapCall.gaps = ClaimedGaps(table, gapCall.timeframe, calendar)

\* the weekend closure of the claim: the last candle is on Friday at or after
\* the close hour, and the next one is the first candle of the reopened
\* market, at the Sunday opening hour of the calendar or at the Monday one
IsWeekendClosure(cal, previous, current) ==
    LET sunday == FirstForDay(cal.forex_market_open, 6) IN
    /\ weekday(previous) = 4
    /\ hour(previous) >= get_market_close_time(cal, 4)
    /\ current - previous < 3 * 24 * 60
    /\ \/ weekday(current) = 6 /\ sunday.found /\ hour(current) = sunday.hh
       \/ weekday(current) = 0 /\ hour(current) = get_market_open_time(cal, 0)

\* C3: with weekend_trading disabled, find_data_gaps never reports a weekend
\* market closure as a gap, whether the market reopens on Sunday evening or on
\* Monday.
C3_WeekendClosureNeverReported ==
    (gapCall.called /\ ~calendar.weekend_trading)
        => \A i \in DOMAIN ConsecutivePairs(table) :
              LET pr == ConsecutivePairs(table)[i] IN
              IsWeekendClosure(calendar, pr[1], pr[2]) => pr \notin Range(gapCall.gaps)

\* C4: at every moment at most max_workers invocations of _update_single_pair
\* are running, no pair's task runs twice, and when update_all_pairs returns
\* every pair returned by ensure_currency_pairs has been run exactly once.
C4_BoundedWorkersOncePerPair ==
    /\ Cardinality(Running(tasks)) <= params.max_workers
    /\ \A p \in Pairs : tasks[p].runs <= 1
    /\ upc = "returned" => \A p \in Pairs : tasks[p].runs = IF p \in pair_map THEN 1 ELSE 0

\* the pool is saturated: max_workers tasks run while another one is queued
C4_Witness ==
    /\ Cardinality(Running(tasks)) = params.max_workers
    /\ \E p \in Pairs : tasks[p].st = "queued"

\* C5: when MT5 initialization succeeded and the pair map is not empty,
\* update_all_pairs returns a map whose keys are exactly the configured pairs
\* and whose value for a pair is the boolean its task returned (False for a
\* task that ended in an exception), under every interleaving.
C5_ResultsCoverEveryPair ==
    (upc = "returned" /\ pair_map # {})
        => /\ DOMAIN results = Pairs
           /\ \A p \in Pairs : /\ results[p] = tasks[p].ret
                               /\ tasks[p].raised => ~results[p]

\* a returned map that records a failed and a successful pair side by side
C5_Witness ==
    /\ upc = "returned"
    /\ \E p, q \in DOMAIN results : results[p] /\ ~results[q]

\* C6: run_scheduled_update calls update_all_pairs at most retry_attempts
\* times, makes no call after an attempt whose results are all True, sleeps
\* exactly once between two consecutive attempts and never after the last or
\* a successful attempt, and a raised exception ends it without propagating.
C6_RetryLoop ==
    /\ sched.calls <= params.retry_attempts
    /\ sched.outcome = "success" => sched.pc = "done"
    /\ sched.pc \in {"loop", "sleeping"} => sched.sleeps = sched.calls
    /\ sched.pc = "in_call" => sched.sleeps = sched.calls - 1
    /\ (sched.pc = "done" /\ sched.calls > 0) => sched.sleeps = sched.calls - 1
    /\ (sched.pc = "done" /\ sched.calls = 0) => sched.sleeps = 0
    /\ (sched.pc = "done" /\ ~params.config_ok)
          => sched.outcome = "critical" /\ sched.calls = 0

\* every attempt failed: retry_attempts calls with a sleep between them
C6_Witness ==
    /\ sched.pc = "done" /\ sched.outcome = "all_failed"
    /\ sched.calls = params.retry_attempts /\ sched.calls >= 2
    /\ sched.sleeps = sched.calls - 1

\* C7: run_scheduled_update ends "completed successfully" only after an
\* attempt in which every configured pair was updated successfully; an attempt
\* that returned an empty map counts as failed and is retried.
C7_SuccessMeansEveryPairUpdated ==
    sched.outcome = "success"
        => /\ DOMAIN results = Pairs
           /\ \A p \in Pairs : results[p]

\* C8: on every exit path of update_all_pairs the MT5 connection is shut
\* down: after the call is_initialized is False, and the connection is never
\* closed while a submitted pair task is unfinished.
C8_ShutdownOnEveryExit ==
    /\ upc = "returned" => ~fetcher.is_initialized
    /\ ~fetcher.closed_while_busy

\* a normal return after the pool ran every pair, with the connection closed
C8_Witness ==
    /\ upc = "returned" /\ pair_map = Pairs
    /\ \A p \in Pairs : tasks[p].st = "done"
    /\ ~fetcher.is_initialized

\* C9: _update_single_pair returns True iff every requested operation
\* returned True: (not update_latest or latest) and (not fill_gaps or gaps);
\* an exception yields False.
C9_SinglePairResult ==
    \A p \in Pairs :
        tasks[p].st = "done"
            => tasks[p].ret =
                 (/\ ~tasks[p].raised
                  /\ params.update_latest => tasks[p].latest = "True"
                  /\ params.fill_gaps => tasks[p].gaps = "True")

\* a task whose latest update failed and whose gap filling succeeded
C9_Witness ==
    \E p \in Pairs :
        /\ tasks[p].st = "done" /\ ~tasks[p].ret
        /\ tasks[p].latest = "False" /\ tasks[p].gaps = "True"

\* C10: fetch_ohlcv returns a DataFrame or None and never raises; called
\* with neither start_date nor count it fetches from the configured start date.
C10_FetchNeverRaises ==
    fetchCall.called
        => /\ fetchCall.kind \in {"df", "None"}
           /\ (/\ fetchCall.args.start_date = "None" /\ fetchCall.args.count = "None"
               /\ fetchCall.args.connected /\ fetchCall.args.symbol_ok
               /\ fetchCall.args.timeframe_ok)
                 => fetchCall.from = "config"

\* the input rows that fall into the bucket starting at b
BucketRows(rows, b, rule) == {r \in Range(rows) : BinStart(r.time, rule) = b}

RECURSIVE VolumeOf(_)
\* the volumes of a set of rows added up
VolumeOf(S) ==
    IF S = {} THEN 0
    ELSE LET r == CHOOSE x \in S : TRUE IN r.volume + VolumeOf(S \ {r})

\* the candle the claim describes for the rows S of one bucket
IsBucketCandle(c, S) ==
    LET earliest == CHOOSE r \in S : \A q \in S : r.time <= q.time
        latest   == CHOOSE r \in S : \A q \in S : r.time >= q.time
    IN  /\ c.open = earliest.open
        /\ c.close = latest.close
        /\ \A r \in S : c.high >= r.high
        /\ \E r \in S : c.high = r.high
        /\ \A r \in S : c.low <= r.low
        /\ \E r \in S : c.low = r.low
        /\ c.volume = VolumeOf(S)

\* C11: for a non-empty frame with a time column or index, resample_data with
\* valid and different timeframes returns exactly one candle per target bucket
\* that holds an input row and none for an empty bucket, each candle with the
\* open of the bucket's earliest row, the close of its latest row, the maximum
\* high, the minimum low and the summed volume; with equal timeframes it
\* returns the input rows unchanged, with an unknown timeframe None.
C11_ResampleBuckets ==
    (resCall.called /\ resIn.kind \in {"column", "index"} /\ Len(resIn.rows) > 0)
        => LET res == resCall.result IN
           IF \/ resCall.source \notin ResamplerTimeframes
              \/ resCall.target \notin ResamplerTimeframes
           THEN res.kind = "none"
           ELSE IF resCall.source = resCall.target
           THEN res.kind # "none" /\ res.rows = resIn.rows
           ELSE LET rule == resample_rule(resCall.target)
                    buckets == {BinStart(r.time, rule) : r \in Range(resIn.rows)}
                IN  /\ res.kind # "none"
                    /\ Len(res.rows) = Cardinality(buckets)
                    /\ {c.time : c \in Range(res.rows)} = buckets
                    /\ \A c \in Range(res.rows) :
                          IsBucketCandle(c, BucketRows(resIn.rows, c.time, rule))

\* an unordered frame of three rows, two of them in one 5-minute bucket and
\* an empty bucket between the two candles returned
C11_Witness ==
    /\ resCall.called /\ resCall.source = "1m" /\ resCall.target = "5m"
    /\ Len(resIn.rows) = 3 /\ resIn.rows[1].time > resIn.rows[2].time
    /\ Len(resCall.result.rows) = 2
    /\ resCall.result.rows[1].time = 0 /\ resCall.result.rows[2].time = 10
    /\ resCall.result.rows[1].volume > resIn.rows[1].volume

\* the stored rows inside the requested range
Matching(tbl, start_date, end_date) ==
    {r \in tbl : /\ \A s \in start_date : s <= r.time
                 /\ \A e \in end_date : r.time <= e}

MatchesConfig(rows, config) ==
    \A i \in 1..Len(config) :
        /\ Cardinality({r \in rows : r.name = config[i].name}) = 1
        /\ \A r \in rows : r.name = config[i].name =>
              /\ r.description = (IF config[i].description = {} THEN ""
                                  ELSE ValueOf(config[i].description))
              /\ r.pip_value = (IF config[i].pip_value = {} THEN DefaultPipValue
                                ELSE ValueOf(config[i].pip_value))
              /\ r.spread_avg = (IF config[i].spread_avg = {} THEN DefaultSpreadAvg
                                 ELSE ValueOf(config[i].spread_avg))

\* C13: after a successful ensure_currency_pairs every configured pair name
\* has exactly one CurrencyPair row whose description, pip_value and spread_avg
\* equal the configured values and the returned map's keys are the configured
\* names; a further call with the configuration unchanged creates and changes
\* no row; when an exception occurs the returned map is empty.
C13_EnsureCurrencyPairs ==
    ecpCall.called
        => /\ ~ecpCall.raised =>
                /\ MatchesConfig(currency_pairs, config_pairs)
                /\ DOMAIN ecpCall.pair_map =
                      {config_pairs[i].name : i \in 1..Len(config_pairs)}
                /\ \A nm \in DOMAIN ecpCall.pair_map :
                      \E r \in currency_pairs :
                          r.name = nm /\ r.id = ecpCall.pair_map[nm]
           /\ (~ecpCall.raised /\ ecpCall.again) => ~ecpCall.changed
           /\ ecpCall.raised => ecpCall.pair_map = <<>>

\* a call that had to bring an existing row up to date with an edited
\* configuration, next to a row of a pair that is no longer configured
C13_Witness ==
    /\ ecpCall.called /\ ~ecpCall.raised /\ ecpCall.changed
    /\ Len(config_pairs) >= 1
    /\ Cardinality(currency_pairs) > Len(config_pairs)
    /\ \E r \in currency_pairs : r.pip_value # DefaultPipValue

\* C14: fill_data_gaps returns True only if gap filling was successful: when
\* storing the fetched candles of at least one gap failed, it returns False.
C14_FillFailsWhenStoreFails ==
    (run.pc = "done" /\ run.store_failed) => run.fill = "False"

\* C15: get_resampled_price_data returns the same candles as resampling the
\* stored 1-minute data of the requested range, whether they come from the
\* stored target table or are computed, and it stores rows in the target
\* table only when store_result is True.
C15_ResampledEqualsFreshResample ==
    (rsCall.called /\ ~rsCall.dbError)
        => /\ rsCall.result =
                resample_data(get_price_data(table, rsCall.start_date, rsCall.end_date,
                                             None, FALSE),
                              "1m", TargetTimeframe)
           /\ rsCall.stored => rsCall.store_result

\* C16: update_latest_data never stores the candle of the current minute:
\* every row it passes to store_price_data has a timestamp strictly before
\* the current time truncated to the minute.
C16_NeverStoresCurrentMinute ==
    \A t \in run.passed : t < run.now

\* the timestamps of a frame
FrameTimes(frame) == {frame.rows[i].time : i \in 1..Len(frame.rows)}

NewRecords(frame, before) ==
    {ToRecord(frame.rows[i]) : i \in {k \in 1..Len(frame.rows) :
                                        frame.rows[k].time \notin TableTimes(before)}}

\* C18: one store_price_data call either inserts every row of the frame that
\* was not stored already and returns True, or, on an error during the
\* insert, inserts none of them, leaves the table unchanged and returns False;
\* a None or empty frame returns False without touching the table.
C18_AtomicInsert ==
    (~storeIn.pending /\ storeCall.called)
        => /\ storeCall.ret => table = storeIn.before \cup NewRecords(storeIn.frame, storeIn.before)
           /\ ~storeCall.ret => table = storeIn.before
           /\ (storeIn.frame.kind = "none" \/ Len(storeIn.frame.rows) = 0)
                 => ~storeCall.ret /\ table = storeIn.before

\* an insert of two new rows fails and neither of them is in the table
C18_Witness ==
    /\ ~storeIn.pending /\ storeCall.called /\ ~storeCall.ret
    /\ storeCall.err \in {"db", "pk_frame"}
    /\ Cardinality(NewRecords(storeIn.frame, storeIn.before)) = 2
    /\ table = storeIn.before

\* C19: fill_data_gaps asks the broker only for gaps that are at most
\* max_gap_days long and that are no weekend gaps, in ascending order of the
\* gap start, and for a timeframe other than "1m" it returns False without
\* querying the database or the broker.
C19_RequestsOnlyFillableGaps ==
    /\ \A k \in 1..Len(run.requests) :
          /\ run.requests[k][2] - run.requests[k][1] <= run.max_gap_days * 24 * 60
          /\ ~IsWeekendClosure(calendar, run.requests[k][1], run.requests[k][2])
    /\ \A k \in 1..(Len(run.requests) - 1) :
          run.requests[k][1] < run.requests[k + 1][1]
    /\ (run.pc = "done" /\ run.timeframe # "1m")
          => run.ret = "False" /\ ~run.queried /\ run.requests = <<>>

\* the latest update stored fresh candles and left a hole of missing minutes
\* between the newest candle stored before and the oldest fetched one
HoleAfterLatest ==
    /\ run.latest = "True" /\ run.prev_newest # {} /\ run.passed # {}
    /\ MinOf(run.passed) > ValueOf(run.prev_newest) + 1

CompleteFetch(k) ==
    Cardinality(run.fetched[k]) = run.requests[k][2] - run.requests[k][1] + 1

\* the broker has no candle strictly inside the gap
NothingInside(gap, now) ==
    \A t \in BrokerTimes : ~(gap[1] < t /\ t < gap[2] /\ t < now)

\* the gaps find_data_gaps reports for the table as it is now
ReportedNow == Range(find_data_gaps(table, run.timeframe, calendar, FALSE))

\* C21: gap filling converges.  When fill_data_gaps has returned, its gap
\* query and every store succeeded and the broker answered every requested
\* range with a candle for each of its minutes, find_data_gaps reports no gap
\* of at most max_gap_days.  A requested gap inside which the broker has no
\* candle is still reported afterwards, and the next run whose gap query
\* succeeds requests it again.
C21_GapFillingConverges ==
    /\ (/\ run.pc = "done" /\ run.fill = "True" /\ run.queried /\ ~run.dbError
        /\ ~run.store_failed
        /\ \A k \in 1..Len(run.requests) : CompleteFetch(k))
          => \A g \in ReportedNow : gap_too_large(g, run.max_gap_days)
    /\ run.pc = "done"
          => \A k \in 1..Len(run.requests) :
                NothingInside(run.requests[k], run.now)
                    => run.requests[k] \in ReportedNow
    /\ (run.pc = "done" /\ run.queried /\ ~run.dbError)
          => \A g \in run.prev_requests :
                NothingInside(g, run.now) => g \in Range(run.requests)

\* a later run has asked again for a gap that an earlier run requested and
\* for which the broker has no candle, and the gap is still reported
C21_Witness ==
    /\ run.pc = "done" /\ run.queried /\ ~run.dbError
    /\ \E g \in run.prev_requests :
          /\ NothingInside(g, run.now)
          /\ g \in Range(run.requests)
          /\ g \in ReportedNow

\* the gap list of the run is the one find_data_gaps returned for the table
\* as it is now: no iteration of the fill loop has run yet
GapsJustQueried ==
    /\ run.queried /\ ~run.dbError /\ run.requests = <<>>
    /\ run.pc = "done" \/ (run.pc = "fill_loop" /\ run.i = 1)

\* both ends are stored timestamps with no stored timestamp between them
AdjacentStored(gap) ==
    /\ gap[1] \in TableTimes(table) /\ gap[2] \in TableTimes(table)
    /\ gap[1] < gap[2]
    /\ \A t \in TableTimes(table) : ~(gap[1] < t /\ t < gap[2])

ClassifiedWeekend(pr) ==
    /\ gapCall.called /\ ~gapCall.dbError
    /\ gapCall.timeframe \in SupportedTimeframes
    /\ expected_intervals(pr[1], pr[2], gapCall.timeframe) > 1
    /\ pr \notin Range(gapCall.gaps)

\* C23: a range is classified as a weekend gap only if it covers a single
\* weekend closure: its start is a Friday at or after the close hour, its end
\* is the Monday immediately following (less than 7 days later) at or before
\* the open hour, and weekend_trading is disabled.
C23_SingleWeekendOnly ==
    \A i \in DOMAIN ConsecutivePairs(table) :
        LET pr == ConsecutivePairs(table)[i] IN
        ClassifiedWeekend(pr)
            => /\ ~calendar.weekend_trading
               /\ weekday(pr[1]) = 4 /\ weekday(pr[2]) = 0
               /\ pr[2] - pr[1] < 7 * 24 * 60
               /\ hour(pr[1]) >= get_market_close_time(calendar, 4)
               /\ hour(pr[2]) <= get_market_open_time(calendar, 0)

\* the timestamps caller c is going to insert: those of its frame that were
\* not stored when it read the table
ToInsert(c) ==
    {calls[c].frame.rows[i].time : i \in 1..Len(calls[c].frame.rows)}
        \ calls[c].existing_times

\* C24: when two store_price_data calls on the same table interleave, neither
\* call attempts to insert a timestamp the other has inserted already: under
\* every interleaving of their read and insert steps both calls return True
\* and the table ends up holding the rows of both frames.
C24_InterleavedStoresSucceed ==
    /\ \A c \in Callers :
          calls[c].pc = "read" => ToInsert(c) \cap TableTimes(table) = {}
    /\ (\A c \in Callers : calls[c].pc = "done")
          => \A c \in Callers :
                /\ calls[c].ret
                /\ \A i \in 1..Len(calls[c].frame.rows) :
                      calls[c].frame.rows[i].time \in TableTimes(table)

\* the target timeframe was stored successfully by the last call
TargetStored == rlCall.called /\ <<TargetTimeframe, TRUE>> \in rlCall.results

\* C25: after resample_latest_data has stored a target timeframe successfully,
\* every stored candle of that timeframe inside the lookback window is the
\* aggregation of the stored 1-minute rows of its bucket, also when the candle
\* was stored by an earlier run before more 1-minute rows of the bucket
\* arrived; the returned map has one entry per requested timeframe and "1m" is
\* reported True.
C25_LatestCandlesAreAggregates ==
    TargetStored
        => /\ \A r \in ttable :
                 r.time >= rlCall.start_date
                    => IsBucketCandle(r, {q \in table :
                          BinStart(q.time, resample_rule(TargetTimeframe)) = r.time})
           /\ {e[1] : e \in rlCall.results} = Range(rlCall.target_timeframes)
           /\ \A e1, e2 \in rlCall.results : e1[1] = e2[1] => e1 = e2
           /\ "1m" \in Range(rlCall.target_timeframes)
                 => <<"1m", TRUE>> \in rlCall.results

====
